---- MODULE Spec2Model ----
(***************************************************************************)
(* State-machine model of main.py: the /track handler and the staleness    *)
(* sweep it schedules (tourist_state), the /calculate_score scorer and the *)
(* /get_nearby_attractions proxy.                                          *)
(*                                                                         *)
(* Units.  Time is in minutes.  Coordinates are integers counting the      *)
(* angle that subtends 0.01 km on a sphere of radius 6371.0 km, so that    *)
(* the great-circle distance between two points of one meridian, or of the *)
(* equator, is the difference of their coordinates in units of 0.01 km.    *)
(* Optional values (None) are sequences of length 0 or 1.                  *)
(***************************************************************************)
EXTENDS Integers, Sequences, FiniteSets, TLC

VARIABLES
    now,            \* the wall clock, datetime.now(), in minutes
    tourist_state,  \* the dict tourist_state: tourist id -> record
    key_order,      \* the dict's key order (insertion order), as list(keys()) reads it
    handler,        \* per in-flight HTTP request: the /track coroutine's position and locals
    sweep,          \* per background task: check_for_sudden_dropoffs' position and locals
    response,       \* the response of the /track request that has just finished, or None
    reported,       \* history: per tourist, the last report /track stored (time, lat, lon)
    score,          \* a /calculate_score request: its inputs and its response
    poi             \* a /get_nearby_attractions request: its inputs, loop state and response

trackVars == <<now, tourist_state, key_order, handler, sweep, response, reported>>
vars == <<now, tourist_state, key_order, handler, sweep, response, reported, score, poi>>

----------------------------------------------------------------------------
(* Bounds of the model *)
MaxTicks == 3
MaxRequests == 2
MaxSweeps == 2

(* The clock readings the model distinguishes: 0, 15, 20, 25, ... minutes, *)
(* so that ages of exactly 15 and exactly 20 minutes occur.                *)
Instant(i) == IF i = 0 THEN 0 ELSE 10 + 5 * i

(* Program constants, in the units above *)
StaleMinutes == 15
InactiveMinutes == 20
InactiveRadius == 5
DeviationMargin == 20

None == <<>>
Some(x) == <<x>>

Tourists == {"t1", "t2"}
Requests == 1..MaxRequests
SweepIds == 1..MaxSweeps

(* The reports the model feeds /track: each tourist moves along one        *)
(* meridian, t1 along a meridian of non-zero longitude and t2 along the    *)
(* meridian of longitude 0.0, and names destinations on it. Latitudes are  *)
(* in units of the angle that subtends 0.01 km, so that along a meridian   *)
(* haversine is the difference of the latitudes.                           *)
Line == {0, 4, 5, 25}
DestLine == {-1, 0}
Meridian(t) == IF t = "t1" THEN 1 ELSE 0

Positions(t) == {<<x, Meridian(t)>> : x \in Line}

(* lines 36-41: the two destination fields are optional independently *)
TrackingData(t) ==
    { [tourist_id |-> t, latitude |-> p[1], longitude |-> p[2],
       destination_lat |-> dlat, destination_lon |-> dlon] :
        p \in Positions(t),
        dlat \in {None} \cup {Some(x) : x \in DestLine},
        dlon \in {None, Some(Meridian(t))} }

(* The reports of the specification of the races: one point, no destination *)
PlainData(t) ==
    { [tourist_id |-> t, latitude |-> 0, longitude |-> 0,
       destination_lat |-> None, destination_lon |-> None] }

Abs(x) == IF x < 0 THEN -x ELSE x

(* lines 43-50, for two points of one meridian *)
haversine(lat1, lon1, lat2, lon2) ==
    IF lon1 = lon2 THEN Abs(lat2 - lat1) ELSE Abs(lat2 - lat1) + Abs(lon2 - lon1)

(* Python truthiness of an optional float: None and 0.0 are both false *)
truthy(x) == x # None /\ x[1] # 0

Anomaly(kind, tourist_id) == <<kind, tourist_id>>

IsInactive_Far(time_diff_inactive, distance_moved) ==
    time_diff_inactive > InactiveMinutes /\ distance_moved > InactiveRadius
IsInactive(time_diff_inactive, distance_moved) ==
    time_diff_inactive > InactiveMinutes /\ distance_moved < InactiveRadius

IsDeviation(current_dist_to_dest, prev_dist_to_dest) ==
    current_dist_to_dest > prev_dist_to_dest + DeviationMargin

InactivityCheck(data, t_now, last_update) ==
    IF IsInactive(t_now - last_update.timestamp,
                  haversine(data.latitude, data.longitude, last_update.lat, last_update.lon))
    THEN <<Anomaly("inactivity", data.tourist_id)>>
    ELSE <<>>

(* lines 133-136: haversine is called with data.destination_lon whatever *)
(* it is; math.radians(None) raises TypeError                             *)
DeviationRaises(data, last_update) ==
    /\ truthy(data.destination_lat) /\ last_update.destination # None
    /\ data.destination_lon = None

DeviationCheck(data, last_update) ==
    IF truthy(data.destination_lat) /\ last_update.destination # None
    THEN LET dlat == data.destination_lat[1]
             dlon == data.destination_lon[1]
         IN IF IsDeviation(haversine(data.latitude, data.longitude, dlat, dlon),
                           haversine(last_update.lat, last_update.lon, dlat, dlon))
            THEN <<Anomaly("deviation", data.tourist_id)>>
            ELSE <<>>
    ELSE <<>>

NewRecord(data, t_now) ==
    [lat |-> data.latitude, lon |-> data.longitude, timestamp |-> t_now,
     destination |-> IF truthy(data.destination_lat) /\ truthy(data.destination_lon)
                     THEN Some(<<data.destination_lat[1], data.destination_lon[1]>>)
                     ELSE None]

IsStale(t_now, record) == t_now - record.timestamp > StaleMinutes

DictSet(d, k, v) == [x \in DOMAIN d \cup {k} |-> IF x = k THEN v ELSE d[x]]
DictDel(d, k) == [x \in DOMAIN d \ {k} |-> d[x]]
OrderSet(order, k) ==
    IF \E i \in 1..Len(order) : order[i] = k THEN order ELSE Append(order, k)
OrderDel(order, k) == SelectSeq(order, LAMBDA x : x # k)

NoData ==
    [tourist_id |-> "", latitude |-> 0, longitude |-> 0,
     destination_lat |-> None, destination_lon |-> None]
IdleHandler ==
    [pc |-> "idle", data |-> NoData, now |-> 0, found |-> FALSE, last_update |-> None,
     anomalies |-> <<>>, prev |-> None]
IdleSweep ==
    [pc |-> "idle", now |-> 0, keys |-> <<>>, store0 |-> <<>>,
     sawHandler |-> FALSE, sawSweep |-> FALSE]

(* line 120: where the coroutine goes after the test of the key *)
AfterKeyTest_Inverted(found) == IF found THEN "evaluated" ELSE "found"
AfterKeyTest(found) == IF found THEN "found" ELSE "evaluated"

Active(h) == h.pc # "idle"
Running(s) == s.pc \in {"check", "del"}

(* The event loop runs one coroutine at a time and /track never awaits *)
EventLoopFree_Threaded(hd) == TRUE
EventLoopFree(hd) == \A r \in Requests : ~Active(hd[r])

(* History kept for every sweep from its start until its task ends:      *)
(* whether a handler, or another sweep, was running at some moment since. *)
Observed(sw, hd) ==
    [s \in SweepIds |->
        IF Running(sw[s]) \/ sw[s].pc = "done"
        THEN LET h == sw[s].sawHandler \/ \E r \in Requests : Active(hd[r])
                 o == sw[s].sawSweep \/ \E s2 \in SweepIds \ {s} : Running(sw[s2])
             IN [sw[s] EXCEPT !.sawHandler = h, !.sawSweep = o,
                              !.store0 = IF h THEN <<>> ELSE @]
        ELSE sw[s]]

----------------------------------------------------------------------------
(* /calculate_score *)
AdverseWeather == {"Rain", "Thunderstorm", "Fog", "Mist", "Snow", "Drizzle"}

(* the gateway's answers: the fields of the JSON body the scorer reads,    *)
(* each present or missing, and whether the body has any other key         *)
WeatherBodies ==
    [main : {None} \cup {Some(c) : c \in AdverseWeather \cup {"Clear", "Clouds"}},
     temp : {None} \cup {Some(x) : x \in {-5, 0, 35, 36, 40}},
     name : {None, Some("Pune")},
     other : BOOLEAN]
EmptyBody == [main |-> None, temp |-> None, name |-> None, other |-> FALSE]

LocationData ==
    [latitude : {7}, longitude : {9}, destination : {None, Some(<<0, 3>>), Some(<<4, 3>>)}]

(* lines 52-64: no key or a failed call give None *)
get_weather_data(api_key, http) ==
    IF ~api_key THEN None
    ELSE IF http = None THEN None
    ELSE http

(* lines 76-77 *)
coords_to_check(location_data) ==
    IF location_data.destination # None THEN location_data.destination[1]
    ELSE <<location_data.latitude, location_data.longitude>>

Reason(rule, condition, temp) == [rule |-> rule, condition |-> condition, temp |-> temp]

(* line 90 and line 93: the two weather rules *)
IsAdverse(main_weather) == main_weather # None /\ main_weather[1] \in AdverseWeather
IsHot_Inclusive(temp) == temp # None /\ temp[1] # 0 /\ temp[1] >= 35
IsHot(temp) == temp # None /\ temp[1] # 0 /\ temp[1] > 35
(* line 99 *)
IsNight(current_hour) == current_hour < 6 \/ current_hour > 22

Max(a, b) == IF a >= b THEN a ELSE b

(* line 107 *)
Level(safety_score) ==
    IF safety_score > 65 THEN "Safe" ELSE IF safety_score > 35 THEN "Caution" ELSE "Unsafe"

(* line 86: None and the empty dict are both falsy *)
weather_truthy(weather) == weather # None /\ weather[1] # EmptyBody

(* lines 79-110 *)
calculate_safety_score(weather, current_hour) ==
    LET body == IF weather # None THEN weather[1] ELSE EmptyBody
        district == IF body.name # None THEN body.name[1] ELSE "Unknown Area"
        adverse == weather_truthy(weather) /\ IsAdverse(body.main)
        hot == weather_truthy(weather) /\ IsHot(body.temp)
        night == IsNight(current_hour)
        safety_score == 100 - (IF adverse THEN 25 ELSE 0) - (IF hot THEN 15 ELSE 0)
                            - (IF night THEN 30 ELSE 0)
        reasons == (IF adverse THEN <<Reason("weather", body.main[1], 0)>> ELSE <<>>)
                   \o (IF hot THEN <<Reason("heat", "", body.temp[1])>> ELSE <<>>)
                   \o (IF night THEN <<Reason("night", "", 0)>> ELSE <<>>)
        clamped == Max(0, safety_score)
    IN [score |-> clamped, level |-> Level(clamped), reasons |-> reasons,
        district |-> IF weather_truthy(weather) THEN district ELSE "N/A"]

NoResult == [score |-> 0, level |-> "", reasons |-> <<>>, district |-> ""]
IdleScore ==
    [pc |-> "idle", location_data |-> [latitude |-> 0, longitude |-> 0, destination |-> None],
     api_key |-> FALSE, http |-> None, hour |-> 0, queried |-> <<0, 0>>, weather |-> None,
     result |-> NoResult]

ScoreRequests ==
    { [pc |-> "request", location_data |-> l, api_key |-> k, http |-> h, hour |-> hr,
       queried |-> <<0, 0>>, weather |-> None, result |-> NoResult] :
        l \in LocationData, k \in BOOLEAN,
        h \in {None} \cup {Some(b) : b \in WeatherBodies}, hr \in 0..23 }

CalculateScore ==
    /\ score.pc = "request"
    /\ LET weather == get_weather_data(score.api_key, score.http)
       IN score' = [score EXCEPT !.pc = "done",
                                 !.queried = coords_to_check(score.location_data),
                                 !.weather = weather,
                                 !.result = calculate_safety_score(weather, score.hour)]
    /\ UNCHANGED <<trackVars, poi>>

----------------------------------------------------------------------------
(* /get_nearby_attractions *)
NumKeywords == 10
ResultsPerKeyword == 5
MaxReturned == 30

(* A result of the gateway: the POI name (0: missing or empty), the        *)
(* distance and the rest of the entry (address, position), named by where  *)
(* the entry came from.                                                    *)
Result(name, dist, k, i) == [name |-> name, dist |-> dist, address |-> <<k, i>>]

(* Inputs, small: every outcome of the first two keywords with up to two   *)
(* results, the other keywords all failing or all empty.                   *)
SmallLists(k) ==
    {<<>>}
    \cup { <<Result(n1, d1, k, 1)>> : n1 \in 0..2, d1 \in 1..2 }
    \cup { <<Result(n1, d1, k, 1), Result(n2, d2, k, 2)>> :
              n1 \in 0..2, d1 \in 1..2, n2 \in 0..2, d2 \in 1..2 }
SmallOutcomes ==
    { [k \in 1..NumKeywords |-> IF k = 1 THEN o1 ELSE IF k = 2 THEN o2 ELSE rest] :
        o1 \in {None} \cup {Some(l) : l \in SmallLists(1)},
        o2 \in {None} \cup {Some(l) : l \in SmallLists(2)},
        rest \in {None, Some(<<>>)} }

(* Inputs, large: every keyword but a failing one returns a full page; the *)
(* names repeat with period m, the distances are scattered.                *)
LargeOutcomes ==
    { [k \in 1..NumKeywords |->
         IF k = f THEN None
         ELSE Some([i \in 1..ResultsPerKeyword |->
                 LET n == (k - 1) * ResultsPerKeyword + i
                 IN Result(((n * st) % m) + 1, (n * a) % q, k, i)])] :
        f \in {0, 1, 4}, st \in {1, 3}, m \in {29, 30, 31, 50}, a \in {1, 7}, q \in {11, 53} }

RECURSIVE ScanResults(_, _, _, _)
(* lines 189-199: the results of one keyword, in order *)
ScanResults(results, i, attractions, seen_names) ==
    IF i > Len(results) THEN [attractions |-> attractions, seen_names |-> seen_names]
    ELSE LET result == results[i]
             poi_name == result.name
         IN IF poi_name # 0 /\ poi_name \notin seen_names
            THEN ScanResults(results, i + 1,
                    Append(attractions, [name |-> poi_name, address |-> result.address,
                                         distance |-> result.dist]),
                    seen_names \cup {poi_name})
            ELSE ScanResults(results, i + 1, attractions, seen_names)

RECURSIVE InsertByDistance(_, _)
InsertByDistance(sorted, x) ==
    IF sorted = <<>> THEN <<x>>
    ELSE IF sorted[Len(sorted)].distance <= x.distance THEN Append(sorted, x)
    ELSE Append(InsertByDistance(SubSeq(sorted, 1, Len(sorted) - 1), x), sorted[Len(sorted)])

RECURSIVE SortByDistance(_)
(* line 204: list.sort is stable *)
SortByDistance(attractions) ==
    IF attractions = <<>> THEN <<>>
    ELSE InsertByDistance(SortByDistance(SubSeq(attractions, 1, Len(attractions) - 1)),
                          attractions[Len(attractions)])

Min(a, b) == IF a <= b THEN a ELSE b

(* line 205 *)
FirstN_Unsliced(attractions, n) == attractions
FirstN(attractions, n) == SubSeq(attractions, 1, Min(n, Len(attractions)))

IdlePoi ==
    [pc |-> "idle", api_key |-> FALSE, outcomes |-> <<>>, keyword |-> 0,
     attractions |-> <<>>, seen_names |-> {}, result |-> <<>>]

PoiRequests ==
    { [pc |-> "request", api_key |-> key, outcomes |-> o, keyword |-> 0,
       attractions |-> <<>>, seen_names |-> {}, result |-> <<>>] :
        key \in BOOLEAN, o \in SmallOutcomes \cup LargeOutcomes }

(* lines 165-172 *)
PoiBegin ==
    /\ poi.pc = "request"
    /\ poi' = IF poi.api_key THEN [poi EXCEPT !.pc = "loop", !.keyword = 1]
              ELSE [poi EXCEPT !.pc = "error"]
    /\ UNCHANGED <<trackVars, score>>

(* lines 174-202: one keyword; a failed call is logged and skipped *)
PoiKeyword ==
    /\ poi.pc = "loop"
    /\ poi.keyword <= NumKeywords
    /\ LET outcome == poi.outcomes[poi.keyword]
       IN IF outcome = None
          THEN poi' = [poi EXCEPT !.keyword = @ + 1]
          ELSE LET after == ScanResults(outcome[1], 1, poi.attractions, poi.seen_names)
               IN poi' = [poi EXCEPT !.keyword = @ + 1,
                                     !.attractions = after.attractions,
                                     !.seen_names = after.seen_names]
    /\ UNCHANGED <<trackVars, score>>

(* lines 204-205 *)
PoiReturn ==
    /\ poi.pc = "loop"
    /\ poi.keyword > NumKeywords
    /\ poi' = [poi EXCEPT !.pc = "done",
                          !.attractions = SortByDistance(poi.attractions),
                          !.result = FirstN(SortByDistance(poi.attractions), MaxReturned)]
    /\ UNCHANGED <<trackVars, score>>

----------------------------------------------------------------------------
InitTrack ==
    /\ now = 0
    /\ tourist_state = <<>>
    /\ key_order = <<>>
    /\ handler = [r \in Requests |-> IdleHandler]
    /\ sweep = [s \in SweepIds |-> IdleSweep]
    /\ response = None
    /\ reported = <<>>

(* The clock advances while no request is being handled and no task is    *)
(* scheduled or running: a request and the sweep it schedules take no time *)
(* on the scale of the thresholds.                                         *)
Tick ==
    /\ EventLoopFree(handler)
    /\ \A s \in SweepIds : sweep[s].pc = "idle"
    /\ \E i \in 1..MaxTicks : now = Instant(i - 1) /\ now' = Instant(i)
    /\ response' = None
    /\ UNCHANGED <<tourist_state, key_order, handler, sweep, reported>>
    /\ UNCHANGED <<score, poi>>

(* lines 116-120: the coroutine starts, reads the clock and tests the key *)
TrackBegin(r, data, pool) ==
    /\ EventLoopFree(handler)
    /\ \E s \in pool : sweep[s].pc = "idle"
    /\ LET found == data.tourist_id \in DOMAIN tourist_state
           h == [pc |-> AfterKeyTest(found), found |-> found,
                 data |-> data, now |-> now, last_update |-> None, anomalies |-> <<>>,
                 prev |-> IF data.tourist_id \in DOMAIN reported
                          THEN Some(reported[data.tourist_id]) ELSE None]
           hd == [handler EXCEPT ![r] = h]
       IN /\ handler' = hd
          /\ sweep' = Observed(sweep, hd)
    /\ response' = None
    /\ UNCHANGED <<now, tourist_state, key_order, reported>>
    /\ UNCHANGED <<score, poi>>

(* lines 121-140: read the prior record and evaluate both anomaly checks; *)
(* the subscript raises KeyError when a sweep deleted the key meanwhile,  *)
(* the deviation check raises TypeError on a destination without longitude*)
TrackRead(r) ==
    /\ handler[r].pc = "found"
    /\ LET h == handler[r]
           tid == h.data.tourist_id
       IN IF tid \in DOMAIN tourist_state
          THEN LET last_update == tourist_state[tid]
                   hd == IF DeviationRaises(h.data, last_update)
                         THEN [handler EXCEPT ![r] = IdleHandler]
                         ELSE [handler EXCEPT ![r] =
                            [h EXCEPT !.pc = "evaluated",
                                      !.last_update = Some(last_update),
                                      !.anomalies = InactivityCheck(h.data, h.now, last_update)
                                                    \o DeviationCheck(h.data, last_update)]]
               IN /\ handler' = hd
                  /\ sweep' = Observed(sweep, hd)
                  /\ response' = IF DeviationRaises(h.data, last_update)
                                 THEN Some([request |-> r, status |-> "TypeError",
                                            data |-> h.data, now |-> h.now, found |-> h.found,
                                            last_update |-> Some(last_update),
                                            anomalies |-> <<>>, prev |-> h.prev])
                                 ELSE None
          ELSE LET hd == [handler EXCEPT ![r] = IdleHandler]
               IN /\ handler' = hd
                  /\ sweep' = Observed(sweep, hd)
                  /\ response' = Some([request |-> r, status |-> "KeyError", data |-> h.data,
                                       now |-> h.now, found |-> h.found, last_update |-> None,
                                       anomalies |-> <<>>, prev |-> h.prev])
    /\ UNCHANGED <<now, tourist_state, key_order, reported>>
    /\ UNCHANGED <<score, poi>>

(* lines 142-147: overwrite the record *)
TrackWrite(r) ==
    /\ handler[r].pc = "evaluated"
    /\ LET h == handler[r]
           tid == h.data.tourist_id
           hd == [handler EXCEPT ![r].pc = "written"]
       IN /\ tourist_state' = DictSet(tourist_state, tid, NewRecord(h.data, h.now))
          /\ key_order' = OrderSet(key_order, tid)
          /\ reported' = DictSet(reported, tid,
                [timestamp |-> h.now, lat |-> h.data.latitude, lon |-> h.data.longitude])
          /\ handler' = hd
          /\ sweep' = Observed(sweep, hd)
    /\ response' = None
    /\ UNCHANGED now
    /\ UNCHANGED <<score, poi>>

(* lines 149-151: schedule the sweep and return the response *)
TrackReturn(r, pool) ==
    /\ handler[r].pc = "written"
    /\ LET h == handler[r]
           s == CHOOSE x \in pool :
                    /\ sweep[x].pc = "idle"
                    /\ \A y \in pool : sweep[y].pc = "idle" => x <= y
           hd == [handler EXCEPT ![r] = IdleHandler]
       IN /\ handler' = hd
          /\ sweep' = Observed([sweep EXCEPT ![s].pc = "scheduled"], hd)
          /\ response' = Some([request |-> r, status |-> "location updated", data |-> h.data,
                               now |-> h.now, found |-> h.found, last_update |-> h.last_update,
                               anomalies |-> h.anomalies, prev |-> h.prev])
    /\ UNCHANGED <<now, tourist_state, key_order, reported>>
    /\ UNCHANGED <<score, poi>>

AfterLoop(keys) == IF keys = <<>> THEN "done" ELSE "check"

(* lines 154-157: the worker thread starts the task: clock and list(keys()) *)
SweepStart(s) ==
    /\ sweep[s].pc = "scheduled"
    /\ sweep' = Observed([sweep EXCEPT ![s] =
                    [pc |-> AfterLoop(key_order), now |-> now, keys |-> key_order,
                     store0 |-> tourist_state,
                     sawHandler |-> \E r \in Requests : Active(handler[r]),
                     sawSweep |-> \E s2 \in SweepIds \ {s} : Running(sweep[s2])]], handler)
    /\ response' = None
    /\ UNCHANGED <<now, tourist_state, key_order, handler, reported>>
    /\ UNCHANGED <<score, poi>>

(* line 158: the staleness test of the next key *)
SweepCheck(s) ==
    /\ sweep[s].pc = "check"
    /\ LET tid == Head(sweep[s].keys)
       IN IF tid \notin DOMAIN tourist_state
          THEN sweep' = Observed([sweep EXCEPT ![s].pc = "raised"], handler)
          ELSE IF IsStale(sweep[s].now, tourist_state[tid])
               THEN sweep' = Observed([sweep EXCEPT ![s].pc = "del"], handler)
               ELSE sweep' = Observed([sweep EXCEPT ![s].keys = Tail(@),
                                                      ![s].pc = AfterLoop(Tail(sweep[s].keys))],
                                      handler)
    /\ response' = None
    /\ UNCHANGED <<now, tourist_state, key_order, handler, reported>>
    /\ UNCHANGED <<score, poi>>

(* lines 159-161: the deletion of a key found stale *)
SweepDelete(s) ==
    /\ sweep[s].pc = "del"
    /\ LET tid == Head(sweep[s].keys)
       IN IF tid \notin DOMAIN tourist_state
          THEN /\ sweep' = Observed([sweep EXCEPT ![s].pc = "raised"], handler)
               /\ UNCHANGED <<tourist_state, key_order>>
          ELSE /\ tourist_state' = DictDel(tourist_state, tid)
               /\ key_order' = OrderDel(key_order, tid)
               /\ sweep' = Observed([sweep EXCEPT ![s].keys = Tail(@),
                                                   ![s].pc = AfterLoop(Tail(sweep[s].keys))],
                                    handler)
    /\ response' = None
    /\ UNCHANGED <<now, handler, reported>>
    /\ UNCHANGED <<score, poi>>

(* the task is over: it returned, or its KeyError ended it *)
SweepEnd(s) ==
    /\ sweep[s].pc \in {"done", "raised"}
    /\ sweep' = Observed([sweep EXCEPT ![s] = IdleSweep], handler)
    /\ response' = None
    /\ UNCHANGED <<now, tourist_state, key_order, handler, reported>>
    /\ UNCHANGED <<score, poi>>

Init ==
    /\ InitTrack
    /\ score = IdleScore
    /\ poi = IdlePoi

(* One connection and one worker thread, reports with every position and *)
(* destination of the model                                               *)
Next ==
    \/ Tick
    \/ \E t \in Tourists : \E data \in TrackingData(t) : TrackBegin(1, data, {1})
    \/ TrackRead(1)
    \/ TrackWrite(1)
    \/ TrackReturn(1, {1})
    \/ SweepStart(1)
    \/ SweepCheck(1)
    \/ SweepDelete(1)
    \/ SweepEnd(1)

Spec == Init /\ [][Next]_vars

(* MaxRequests connections and MaxSweeps worker threads, plain reports *)
NextRace ==
    \/ Tick
    \/ \E r \in Requests, t \in Tourists : \E data \in PlainData(t) :
          TrackBegin(r, data, SweepIds)
    \/ \E r \in Requests : TrackRead(r)
    \/ \E r \in Requests : TrackWrite(r)
    \/ \E r \in Requests : TrackReturn(r, SweepIds)
    \/ \E s \in SweepIds : SweepStart(s)
    \/ \E s \in SweepIds : SweepCheck(s)
    \/ \E s \in SweepIds : SweepDelete(s)
    \/ \E s \in SweepIds : SweepEnd(s)

SpecRace == Init /\ [][NextRace]_vars

(* /calculate_score over every weather outcome and hour of the model *)
InitScore ==
    /\ InitTrack
    /\ poi = IdlePoi
    /\ score \in ScoreRequests

NextScore == CalculateScore

SpecScore == InitScore /\ [][NextScore]_vars

(* /get_nearby_attractions over the gateway outcomes of the model *)
InitPoi ==
    /\ InitTrack
    /\ score = IdleScore
    /\ poi \in PoiRequests

NextPoi ==
    \/ PoiBegin
    \/ PoiKeyword
    \/ PoiReturn

SpecPoi == InitPoi /\ [][NextPoi]_vars

----------------------------------------------------------------------------
(* What the claims are stated with *)
InSeq(x, seq) == \E i \in 1..Len(seq) : seq[i] = x
(* the report carries destination coordinates *)
HasDestination(data) == data.destination_lat # None /\ data.destination_lon # None
ReportedDestination(data) ==
    IF HasDestination(data) THEN <<<<data.destination_lat[1], data.destination_lon[1]>>>> ELSE <<>>

(* distance in 0.01 km between two points of one meridian *)
ArcDistance(lat1, lon1, lat2, lon2) == Abs(lat1 - lat2) + Abs(lon1 - lon2)
Returned == response # None /\ response[1].status = "location updated"
Resp == response[1]

(* C1, as claimed: a /track report for T more than 20 minutes after T's    *)
(* previous report and less than 0.05 km from it returns the prolonged-    *)
(* inactivity anomaly for T.                                               *)
C1_Original ==
    (/\ Returned
     /\ Resp.prev # None
     /\ Resp.now - Resp.prev[1].timestamp > 20
     /\ ArcDistance(Resp.data.latitude, Resp.data.longitude,
                    Resp.prev[1].lat, Resp.prev[1].lon) < 5)
    => InSeq(<<"inactivity", Resp.data.tourist_id>>, Resp.anomalies)

(* C1, amended: a /track report for T that reads a stored record for T     *)
(* whose timestamp is more than 20 minutes before the handler's clock      *)
(* reading and whose position is less than 0.05 km from the new one        *)
(* returns the prolonged-inactivity anomaly for T.                         *)
C1_StoredRecordInactive ==
    (/\ Returned
     /\ Resp.last_update # None
     /\ Resp.now - Resp.last_update[1].timestamp > 20
     /\ ArcDistance(Resp.data.latitude, Resp.data.longitude,
                    Resp.last_update[1].lat, Resp.last_update[1].lon) < 5)
    => InSeq(<<"inactivity", Resp.data.tourist_id>>, Resp.anomalies)

C1_Witness ==
    /\ Returned
    /\ Resp.last_update # None
    /\ Resp.now - Resp.last_update[1].timestamp = 25
    /\ ArcDistance(Resp.data.latitude, Resp.data.longitude,
                   Resp.last_update[1].lat, Resp.last_update[1].lon) = 1
    /\ Resp.anomalies = << <<"inactivity", Resp.data.tourist_id>> >>

(* C2, as claimed: for a report with a destination, handled against a      *)
(* stored record that has a destination, the route-deviation anomaly is    *)
(* returned exactly when the new distance to the destination exceeds the   *)
(* old one by more than 0.2 km, for every destination, latitude 0 included.*)
C2_Original ==
    (/\ Returned
     /\ HasDestination(Resp.data)
     /\ Resp.last_update # None
     /\ Resp.last_update[1].destination # None)
    => LET d == ReportedDestination(Resp.data)[1]
           cur == ArcDistance(Resp.data.latitude, Resp.data.longitude, d[1], d[2])
           old == ArcDistance(Resp.last_update[1].lat, Resp.last_update[1].lon, d[1], d[2])
       IN InSeq(<<"deviation", Resp.data.tourist_id>>, Resp.anomalies) <=> cur > old + 20

C5_FirstReportNoAnomaly ==
    (response # None /\ ~Resp.found)
    => (Resp.status = "location updated" /\ Resp.anomalies = <<>>)

C5_Witness ==
    /\ Returned
    /\ ~Resp.found
    /\ Resp.prev # None
    /\ HasDestination(Resp.data)
    /\ \E t \in DOMAIN tourist_state : t # Resp.data.tourist_id

(* the records of store d that are at most 15 minutes old at time t *)
FreshAt(d, t) ==
    LET keep == {k \in DOMAIN d : t - d[k].timestamp <= 15}
    IN [k \in keep |-> d[k]]

(* C4, as claimed: when a sweep has run to completion with no /track       *)
(* handler running during it, the store holds exactly the records that     *)
(* were at most 15 minutes old when the sweep ran, each unchanged.         *)
C4_Original ==
    \A s \in SweepIds :
        (sweep[s].pc = "done" /\ ~sweep[s].sawHandler)
        => tourist_state = FreshAt(sweep[s].store0, sweep[s].now)

(* C4 holds of a sweep during which neither a /track handler nor another   *)
(* sweep was running: the sweep alone does what C4 says.                   *)
C4_SweepAlone ==
    \A s \in SweepIds :
        (sweep[s].pc = "done" /\ ~sweep[s].sawHandler /\ ~sweep[s].sawSweep)
        => tourist_state = FreshAt(sweep[s].store0, sweep[s].now)

(* C8, as claimed: two /track requests for one tourist can both read the   *)
(* same prior record, the read and the overwrite not being one step: when  *)
(* a request has read the prior record and not yet overwritten it, a       *)
(* second request for that tourist can start.                              *)
C8_Original ==
    \A r \in Requests :
        (/\ handler[r].pc = "evaluated"
         /\ handler[r].last_update # None
         /\ \E s \in SweepIds : sweep[s].pc = "idle")
        => ENABLED (\E r2 \in Requests \ {r} : TrackBegin(r2, handler[r].data, SweepIds))

(* C8, amended: /track requests do not race with each other: no two        *)
(* requests are inside the handler at once, each runs from its test of     *)
(* the key to its return before the next starts, so a second request for   *)
(* the tourist reads what the first wrote (or nothing, after a sweep).     *)
C8_HandlersSerial ==
    \A r1, r2 \in Requests :
        (Active(handler[r1]) /\ Active(handler[r2])) => r1 = r2

C8_Witness ==
    \E r \in Requests :
        /\ handler[r].pc = "evaluated"
        /\ handler[r].last_update # None
        /\ handler[r].last_update[1].timestamp = handler[r].now
        /\ handler[r].now = 15

(* C9, as claimed: a sweep never deletes a record that is at most 15       *)
(* minutes old at the moment of the deletion.                              *)
C9_Original ==
    [][\A t \in DOMAIN tourist_state :
          t \notin DOMAIN tourist_state' => now - tourist_state[t].timestamp > 15]_vars

(* C10, as claimed: overlapping sweeps each run to completion without      *)
(* raising an error.                                                       *)
C10_Original ==
    \A s \in SweepIds : sweep[s].pc # "raised"

(* C6: /calculate_score returns 100 minus 25 for an adverse condition,     *)
(* minus 15 for a temperature above 35, minus 30 for an hour before 6 or   *)
(* after 22, no weather deduction when the weather is unavailable; the     *)
(* score is in 0..100 and the clamp is not reached; the level is Safe      *)
(* above 65, Caution above 35, Unsafe otherwise; the reasons are the       *)
(* applied deductions in the order condition, heat, time; the district is  *)
(* "N/A" exactly when the weather is unavailable (no key, a failed call   *)
(* or an answer with nothing in it).                                       *)
C6_ScoreTable ==
    score.pc = "done" =>
        LET available == /\ score.api_key
                         /\ score.http # None
                         /\ \/ score.http[1].main # None
                            \/ score.http[1].temp # None
                            \/ score.http[1].name # None
                            \/ score.http[1].other
            body == score.http[1]
            cond == available /\ body.main # None /\ body.main[1] \in
                        {"Rain", "Thunderstorm", "Fog", "Mist", "Snow", "Drizzle"}
            heat == available /\ body.temp # None /\ body.temp[1] > 35
            night == score.hour \in (0..5) \cup {23}
            raw == 100 - (IF cond THEN 25 ELSE 0) - (IF heat THEN 15 ELSE 0)
                       - (IF night THEN 30 ELSE 0)
            res == score.result
            rules == [i \in 1..Len(res.reasons) |-> res.reasons[i].rule]
        IN /\ res.score = raw
           /\ raw >= 30 /\ raw <= 100
           /\ res.level = CASE raw > 65 -> "Safe"
                             [] raw > 35 /\ raw <= 65 -> "Caution"
                             [] raw <= 35 -> "Unsafe"
           /\ rules = (IF cond THEN <<"weather">> ELSE <<>>)
                       \o (IF heat THEN <<"heat">> ELSE <<>>)
                       \o (IF night THEN <<"night">> ELSE <<>>)
           /\ \A i \in 1..Len(res.reasons) :
                 /\ res.reasons[i].rule = "weather" => res.reasons[i].condition = body.main[1]
                 /\ res.reasons[i].rule = "heat" => res.reasons[i].temp = body.temp[1]
           /\ (res.district = "N/A") <=> ~available

C6_Witness ==
    /\ score.pc = "done"
    /\ score.weather # None
    /\ score.weather[1].main = Some("Rain")
    /\ score.weather[1].temp = Some(36)
    /\ score.hour = 23
    /\ score.result.score = 30
    /\ score.result.level = "Unsafe"
    /\ Len(score.result.reasons) = 3

(* the named results of the keywords whose call succeeded, as places       *)
(* <<keyword, index>> of the input                                         *)
Named ==
    { ki \in (1..NumKeywords) \X (1..ResultsPerKeyword) :
        /\ poi.outcomes[ki[1]] # None
        /\ ki[2] <= Len(poi.outcomes[ki[1]][1])
        /\ poi.outcomes[ki[1]][1][ki[2]].name # 0 }
Entry(ki) == poi.outcomes[ki[1]][1][ki[2]]
Earlier(a, b) == a[1] < b[1] \/ (a[1] = b[1] /\ a[2] < b[2])
FirstOccurrences ==
    { ki \in Named : \A other \in Named : Entry(other).name = Entry(ki).name => ~Earlier(other, ki) }

(* C7: /get_nearby_attractions returns the at most 30 nearest, in          *)
(* ascending order of distance, of the results that are the first          *)
(* occurrence of their name in keyword order; a failed keyword adds        *)
(* nothing and fails nothing; no name occurs twice.                        *)
C7_NearestFirstOccurrences ==
    (poi.api_key /\ poi.pc \in {"done", "error"}) =>
        LET out == poi.result
            kept == { ki \in FirstOccurrences :
                        \E i \in 1..Len(out) : out[i].address = ki }
        IN /\ poi.pc = "done"
           /\ Len(out) <= 30
           /\ Len(out) = IF Cardinality(FirstOccurrences) < 30
                         THEN Cardinality(FirstOccurrences) ELSE 30
           /\ \A i \in 1..Len(out) :
                 /\ out[i].address \in FirstOccurrences
                 /\ out[i].name = Entry(out[i].address).name
                 /\ out[i].distance = Entry(out[i].address).dist
           /\ \A i, j \in 1..Len(out) :
                 /\ i < j => out[i].distance <= out[j].distance
                 /\ i # j => out[i].name # out[j].name
           /\ \A ki \in FirstOccurrences \ kept :
                 \A i \in 1..Len(out) : out[i].distance <= Entry(ki).dist

C7_Witness ==
    /\ poi.pc = "done"
    /\ Len(poi.result) = 30
    /\ Cardinality(FirstOccurrences) > 30
    /\ Cardinality(Named) > Cardinality(FirstOccurrences)
    /\ \E k \in 1..NumKeywords : poi.outcomes[k] = None
====
